---------------------------- MODULE Spec2Model ----------------------------
(***************************************************************************)
(* Model of blivet's device actions (src/blivet/deviceaction.py): the six  *)
(* DeviceAction classes, their constructors, execute and cancel methods    *)
(* and the requires / obsoletes predicates, together with the pending      *)
(* queue that register() maintains, the schedule that order() computes     *)
(* and its execution by apply().                                           *)
(*                                                                         *)
(* The Device / DeviceFormat classes and the DeviceTree (register, order,  *)
(* apply) are not part of src/; they are modelled from spec.md sections 3, *)
(* 4.2, 4.3, 4.4 and 6.                                                    *)
(***************************************************************************)
EXTENDS Integers, Sequences, FiniteSets, TLC

(***************************************************************************)
(* Bounds of the model.                                                    *)
(***************************************************************************)
\* number of devices in the device tree
NumDevices == 2
\* number of format objects a caller can hand to ActionCreateFormat
NumNewFormats == 2
\* number of DeviceAction objects that are constructed (ids 1..MaxActions)
MaxActions == 3
\* number of disks the partitions are on
NumDisks == 2
\* the volume groups of the logical volumes
NumVGs == 2

(***************************************************************************)
(* Program constants.                                                      *)
(***************************************************************************)
ACTION_TYPE_NONE == 0
ACTION_TYPE_DESTROY == 1000
ACTION_TYPE_RESIZE == 500
ACTION_TYPE_CREATE == 100

ACTION_OBJECT_NONE == 0
ACTION_OBJECT_FORMAT == 1
ACTION_OBJECT_DEVICE == 2

RESIZE_SHRINK == 88
RESIZE_GROW == 89

(***************************************************************************)
(* The universe of devices, formats and sizes.                             *)
(***************************************************************************)
Devices == 1..NumDevices

\* getFormat(None): the "no format" placeholder.  Every call makes a new
\* object that does not exist and is not resizable; nothing reads any other
\* attribute of it, so one value stands for all of them.
NoFormat == 0
\* format d is the format found on device d when the tree was populated
OldFormats == 1..NumDevices
\* formats made by the caller and handed to ActionCreateFormat
NewFormats == (NumDevices + 1)..(NumDevices + NumNewFormats)
RealFormats == OldFormats \cup NewFormats
Formats == {NoFormat} \cup RealFormats

\* the sizes a device or format of the model has: minSize < currentSize and
\* one size strictly between currentSize and maxSize
SizeProfile == [minSize |-> 1, currentSize |-> 2, maxSize |-> 4]
\* the sizes a caller asks for: below the minimum up to above the maximum
Sizes == (SizeProfile.minSize - 1)..(SizeProfile.maxSize + 1)
\* the sizes a caller asks a format to take: below, at and above its size
FormatSizes == (SizeProfile.currentSize - 1)..(SizeProfile.currentSize + 1)

VARIABLES
    dev,          \* Devices -> the attributes of a device no action changes
    deps,         \* the dependsOn relation: <<a, b>> when a depends on b
    fmt,          \* Formats -> the attributes of a format no action changes
    targetSize,   \* Devices -> device.targetSize
    format,       \* Devices -> device.format (a reference to a format)
    ftargetSize,  \* RealFormats -> format.targetSize
    actions,      \* id -> the DeviceAction object with that id
    nextId,       \* the id the next DeviceAction gets (util.ObjectID)
    fresh,        \* the action constructed and not yet registered, or 0
    queue,        \* the pending queue: a sequence of action ids
    cancelled,    \* id -> the number of times cancel() ran on the action
    snap,         \* the Device/Format model as it was before the last construction
    plan,         \* the result of order(), or NoPlan
    last,         \* the last operation and its outcome
    run           \* apply(): its state and the actions execute() was called on

vars == <<dev, deps, fmt, targetSize, format, ftargetSize, actions, nextId,
          fresh, queue, cancelled, snap, plan, last, run>>

\* the part of the Device/Format model that constructors and cancel() change
Model == [targetSize |-> targetSize, format |-> format, ftargetSize |-> ftargetSize]

\* plan.state: "none" before order() ran, "ordered" when it returned plan.seq,
\* "cycle" when it failed with a planning error, "abandoned" when the caller
\* gave the plan up
NoPlan == [state |-> "none", seq |-> <<>>]
NoSnap == [targetSize |-> <<>>, format |-> <<>>, ftargetSize |-> <<>>]

\* run.state: "none" before apply() was called, "running" between two
\* execute() calls, "done" when every action was executed, "failed" when an
\* execute() raised; run.executed: the ids execute() was called on, in order
NoRun == [state |-> "none", executed |-> <<>>]

(***************************************************************************)
(* Device and DeviceFormat (interface of spec.md section 6).               *)
(***************************************************************************)
\* device.dependsOn(other)
dependsOn(d, other) == <<d, other>> \in deps

\* format.exists / format.resizable / format.currentSize of a format reference
FormatExists(f) == fmt[f].exists
FormatResizable(f) == fmt[f].resizable
FormatCurrentSize(f) == fmt[f].currentSize

\* format.targetSize = newsize: the placeholder's attribute is not tracked
SetFormatTargetSize(m, f, newsize) ==
    IF f = NoFormat THEN m
    ELSE [m EXCEPT !.ftargetSize[f] = newsize]

(***************************************************************************)
(* DeviceAction: type, obj and the is* properties.                         *)
(***************************************************************************)
isDestroy(a) == a.type = ACTION_TYPE_DESTROY
isCreate(a) == a.type = ACTION_TYPE_CREATE
isResize(a) == a.type = ACTION_TYPE_RESIZE
isShrink(a) == a.type = ACTION_TYPE_RESIZE /\ a.dir = RESIZE_SHRINK
isGrow(a) == a.type = ACTION_TYPE_RESIZE /\ a.dir = RESIZE_GROW
isDevice(a) == a.obj = ACTION_OBJECT_DEVICE
isFormat(a) == a.obj = ACTION_OBJECT_FORMAT

\* the record of a DeviceAction object; a field a class does not have is 0
NewAction(id, type, obj, device, dir, origsize, origSize, origFormat) ==
    [id |-> id, type |-> type, obj |-> obj, device |-> device, dir |-> dir,
     origsize |-> origsize, origSize |-> origSize, origFormat |-> origFormat]

\* DeviceAction.format, overridden by ActionDestroyFormat.format
ActionFormat(a, m) ==
    IF isDestroy(a) /\ isFormat(a) THEN a.origFormat ELSE m.format[a.device]


(***************************************************************************)
(* requires: self must be ordered after action.                            *)
(***************************************************************************)
isPartitionDevice(d) == dev[d].cls = "PartitionDevice"
isLVMLogicalVolumeDevice(d) == dev[d].cls = "LVMLogicalVolumeDevice"

\* mutant: the partition with the lower number requires the other one
CreateDeviceRequiresDescending(self, action) ==
    IF dependsOn(self.device, action.device) THEN TRUE
    ELSE IF /\ isCreate(action) /\ isDevice(action)
            /\ isPartitionDevice(self.device)
            /\ isPartitionDevice(action.device)
            /\ dev[self.device].disk = dev[action.device].disk
         THEN dev[self.device].number < dev[action.device].number
    ELSE IF /\ isCreate(action) /\ isDevice(action)
            /\ isLVMLogicalVolumeDevice(self.device)
            /\ isLVMLogicalVolumeDevice(action.device)
            /\ dev[self.device].vg = dev[action.device].vg
            /\ dev[action.device].singlePV /\ ~dev[self.device].singlePV
         THEN TRUE
    ELSE FALSE

\* mutant: the volume restricted to one physical volume requires the other
CreateDeviceRequiresSinglePVLast(self, action) ==
    IF dependsOn(self.device, action.device) THEN TRUE
    ELSE IF /\ isCreate(action) /\ isDevice(action)
            /\ isPartitionDevice(self.device)
            /\ isPartitionDevice(action.device)
            /\ dev[self.device].disk = dev[action.device].disk
         THEN dev[self.device].number > dev[action.device].number
    ELSE IF /\ isCreate(action) /\ isDevice(action)
            /\ isLVMLogicalVolumeDevice(self.device)
            /\ isLVMLogicalVolumeDevice(action.device)
            /\ dev[self.device].vg = dev[action.device].vg
            /\ dev[self.device].singlePV /\ ~dev[action.device].singlePV
         THEN TRUE
    ELSE FALSE

\* ActionCreateDevice.requires
CreateDeviceRequires(self, action) ==
    IF dependsOn(self.device, action.device) THEN TRUE
    ELSE IF /\ isCreate(action) /\ isDevice(action)
            /\ isPartitionDevice(self.device)
            /\ isPartitionDevice(action.device)
            /\ dev[self.device].disk = dev[action.device].disk
         THEN dev[self.device].number > dev[action.device].number
    ELSE IF /\ isCreate(action) /\ isDevice(action)
            /\ isLVMLogicalVolumeDevice(self.device)
            /\ isLVMLogicalVolumeDevice(action.device)
            /\ dev[self.device].vg = dev[action.device].vg
            /\ dev[action.device].singlePV /\ ~dev[self.device].singlePV
         THEN TRUE
    ELSE FALSE

\* mutant: the partition with the higher number requires the other one
DestroyDeviceRequiresAscending(self, action) ==
    IF dependsOn(action.device, self.device) /\ isDestroy(action) THEN TRUE
    ELSE IF /\ isDestroy(action) /\ isDevice(action)
            /\ isPartitionDevice(self.device)
            /\ isPartitionDevice(action.device)
            /\ dev[self.device].disk = dev[action.device].disk
         THEN dev[self.device].number > dev[action.device].number
    ELSE IF /\ isDestroy(action) /\ isFormat(action)
            /\ action.device = self.device
         THEN TRUE
    ELSE FALSE

\* ActionDestroyDevice.requires
DestroyDeviceRequires(self, action) ==
    IF dependsOn(action.device, self.device) /\ isDestroy(action) THEN TRUE
    ELSE IF /\ isDestroy(action) /\ isDevice(action)
            /\ isPartitionDevice(self.device)
            /\ isPartitionDevice(action.device)
            /\ dev[self.device].disk = dev[action.device].disk
         THEN dev[self.device].number < dev[action.device].number
    ELSE IF /\ isDestroy(action) /\ isFormat(action)
            /\ action.device = self.device
         THEN TRUE
    ELSE FALSE

\* mutant: a shrink on a device that depends on the device of self is not
\* required
ResizeDeviceRequiresNoShrinkAbove(self, action) ==
    IF isResize(action)
    THEN IF /\ self.device = action.device
            /\ self.dir = action.dir
            /\ isFormat(action) /\ isShrink(self)
         THEN TRUE
         ELSE IF isGrow(action) /\ dependsOn(self.device, action.device) THEN TRUE
         ELSE FALSE
    ELSE FALSE

\* ActionResizeDevice.requires
ResizeDeviceRequires(self, action) ==
    IF isResize(action)
    THEN IF /\ self.device = action.device
            /\ self.dir = action.dir
            /\ isFormat(action) /\ isShrink(self)
         THEN TRUE
         ELSE IF isGrow(action) /\ dependsOn(self.device, action.device) THEN TRUE
         ELSE IF isShrink(action) /\ dependsOn(action.device, self.device) THEN TRUE
         ELSE FALSE
    ELSE FALSE

\* mutant: only the actions that create or resize the own device are required
CreateFormatRequiresOwnDeviceOnly(self, action) ==
    /\ isDevice(action)
    /\ (isCreate(action) \/ isResize(action))
    /\ self.device = action.device

\* ActionCreateFormat.requires
CreateFormatRequires(self, action) ==
    \/ /\ dependsOn(self.device, action.device)
       /\ ~(isDestroy(action) /\ isDevice(action))
    \/ /\ isDevice(action)
       /\ (isCreate(action) \/ isResize(action))
       /\ self.device = action.device

\* mutant: a format destruction requires nothing
DestroyFormatRequiresNothing(self, action) == FALSE

\* ActionDestroyFormat.requires
DestroyFormatRequires(self, action) ==
    dependsOn(action.device, self.device) /\ isDestroy(action)

\* ActionResizeFormat.requires
ResizeFormatRequires(self, action) ==
    IF isResize(action)
    THEN IF /\ self.device = action.device
            /\ self.dir = action.dir
            /\ isDevice(action) /\ isGrow(self)
         THEN TRUE
         ELSE IF isShrink(action) /\ dependsOn(action.device, self.device) THEN TRUE
         ELSE IF isGrow(action) /\ dependsOn(self.device, action.device) THEN TRUE
         ELSE FALSE
    ELSE FALSE

\* self.requires(action), dispatched on the class of self
requires(self, action) ==
    CASE isCreate(self) /\ isDevice(self) -> CreateDeviceRequires(self, action)
      [] isDestroy(self) /\ isDevice(self) -> DestroyDeviceRequires(self, action)
      [] isResize(self) /\ isDevice(self) -> ResizeDeviceRequires(self, action)
      [] isCreate(self) /\ isFormat(self) -> CreateFormatRequires(self, action)
      [] isDestroy(self) /\ isFormat(self) -> DestroyFormatRequires(self, action)
      [] isResize(self) /\ isFormat(self) -> ResizeFormatRequires(self, action)

(***************************************************************************)
(* obsoletes: registering self makes action unnecessary.  m is the         *)
(* Device/Format model at the time of the call (action.format reads it).   *)
(***************************************************************************)
\* mutant: the ids are compared with >=
BaseObsoletesIncludingSelf(self, action) ==
    /\ self.device = action.device
    /\ self.type = action.type
    /\ self.obj = action.obj
    /\ self.id >= action.id

\* DeviceAction.obsoletes (ActionCreateDevice, ActionResizeDevice,
\* ActionResizeFormat do not override it)
BaseObsoletes(self, action) ==
    /\ self.device = action.device
    /\ self.type = action.type
    /\ self.obj = action.obj
    /\ self.id > action.id

\* mutant: format-destroy actions are spared whether the device exists or not
DestroyDeviceObsoletesSparesFormatDestroy(self, action) ==
    IF action.device = self.device
    THEN /\ self.id > action.id
         /\ ~(isDestroy(action) /\ isFormat(action))
    ELSE FALSE

\* mutant: the destruction of an existing device spares no format destruction
DestroyDeviceObsoletesAllLower(self, action) ==
    IF action.device = self.device
    THEN IF self.id >= action.id /\ ~dev[self.device].exists THEN TRUE
         ELSE IF self.id > action.id /\ dev[self.device].exists THEN TRUE
         ELSE FALSE
    ELSE FALSE

\* ActionDestroyDevice.obsoletes
DestroyDeviceObsoletes(self, action) ==
    IF action.device = self.device
    THEN IF self.id >= action.id /\ ~dev[self.device].exists THEN TRUE
         ELSE IF /\ self.id > action.id
                 /\ dev[self.device].exists
                 /\ ~(isDestroy(action) /\ isFormat(action))
              THEN TRUE
         ELSE FALSE
    ELSE FALSE

\* mutant: the destruction of an existing format is obsoleted too
CreateFormatObsoletesAllFormat(self, action, m) ==
    /\ self.device = action.device
    /\ self.obj = action.obj
    /\ self.id > action.id

\* ActionCreateFormat.obsoletes
CreateFormatObsoletes(self, action, m) ==
    /\ self.device = action.device
    /\ self.obj = action.obj
    /\ ~(isDestroy(action) /\ FormatExists(ActionFormat(action, m)))
    /\ self.id > action.id

\* mutant: without the exception for the destruction of an existing format
DestroyFormatObsoletesAnyDestroy(self, action, m) ==
    /\ self.device = action.device
    /\ self.obj = action.obj
    /\ \/ self.id > action.id
       \/ self.id = action.id /\ ~FormatExists(ActionFormat(self, m))

\* ActionDestroyFormat.obsoletes
DestroyFormatObsoletes(self, action, m) ==
    /\ self.device = action.device
    /\ self.obj = action.obj
    /\ \/ self.id > action.id
       \/ self.id = action.id /\ ~FormatExists(ActionFormat(self, m))
    /\ ~(/\ FormatExists(ActionFormat(action, m))
         /\ ~FormatExists(ActionFormat(self, m)))

\* self.obsoletes(action), dispatched on the class of self
obsoletes(self, action, m) ==
    CASE isDestroy(self) /\ isDevice(self) -> DestroyDeviceObsoletes(self, action)
      [] isCreate(self) /\ isFormat(self) -> CreateFormatObsoletes(self, action, m)
      [] isDestroy(self) /\ isFormat(self) -> DestroyFormatObsoletes(self, action, m)
      [] OTHER -> BaseObsoletes(self, action)

(***************************************************************************)
(* cancel: undo the constructor's change of the Device/Format model.       *)
(***************************************************************************)
\* ActionResizeDevice.cancel
ResizeDeviceCancel(a, m) == [m EXCEPT !.targetSize[a.device] = a.origsize]

\* ActionCreateFormat.cancel
CreateFormatCancel(a, m) == [m EXCEPT !.format[a.device] = a.origFormat]

\* ActionDestroyFormat.cancel
DestroyFormatCancel(a, m) == [m EXCEPT !.format[a.device] = a.origFormat]

\* ActionResizeFormat.cancel: writes the format the device has now
ResizeFormatCancel(a, m) == SetFormatTargetSize(m, m.format[a.device], a.origSize)

\* a.cancel(), dispatched on the class of a (DeviceAction.cancel does nothing)
cancel(a, m) ==
    CASE isResize(a) /\ isDevice(a) -> ResizeDeviceCancel(a, m)
      [] isCreate(a) /\ isFormat(a) -> CreateFormatCancel(a, m)
      [] isDestroy(a) /\ isFormat(a) -> DestroyFormatCancel(a, m)
      [] isResize(a) /\ isFormat(a) -> ResizeFormatCancel(a, m)
      [] OTHER -> m

(***************************************************************************)
(* execute: apply the action to the system.  b is what the backend does    *)
(* during the call:                                                        *)
(*   b.ok          the routine that does the work (device.create, destroy, *)
(*                 resize, format.create, destroy, doResize) does not raise *)
(*   b.setupOk     device.setup() does not raise                           *)
(*   b.teardownOk  device.teardown() does not raise                        *)
(*   b.parted      the device has a partedDevice                           *)
(*   b.uncacheOk   partedDevice.removeFromCache() does not raise           *)
(*   b.status      device.status when execute() starts                     *)
(*   b.lookup      udev_get_block_device() returns a descriptor            *)
(*   b.ftype       the type of the device's format                         *)
(* w is the part of the Device/Format model the backend routines change:   *)
(* [dev, fmt].  The result holds whether execute() returned (ok), w after  *)
(* it, the routines called and attributes assigned, in order (calls), and  *)
(* device.status after it (status).                                        *)
(***************************************************************************)
FormatTypes == {"ext4", "btrfs", "tmpfs"}

Backends == [ok : BOOLEAN, parted : BOOLEAN, uncacheOk : BOOLEAN,
             setupOk : BOOLEAN, teardownOk : BOOLEAN, status : BOOLEAN,
             lookup : BOOLEAN, ftype : FormatTypes]

\* the backend when nothing raises: a routine the call does not reach, or an
\* attribute it does not read, has this value
QuietBackend ==
    [ok |-> TRUE, parted |-> FALSE, uncacheOk |-> TRUE, setupOk |-> TRUE,
     teardownOk |-> TRUE, status |-> FALSE, lookup |-> TRUE, ftype |-> "ext4"]

Raised(w, calls, status) ==
    [ok |-> FALSE, w |-> w, calls |-> calls, status |-> status]
Returned(w, calls, status) ==
    [ok |-> TRUE, w |-> w, calls |-> calls, status |-> status]

\* device.create() / device.destroy(): the device exists / exists no more
DeviceCreate(w, d) == [w EXCEPT !.dev[d].exists = TRUE]
DeviceDestroy(w, d) == [w EXCEPT !.dev[d].exists = FALSE]

\* format.create() / format.destroy(); the placeholder is not tracked
FormatCreate(w, f) == IF f = NoFormat THEN w ELSE [w EXCEPT !.fmt[f].exists = TRUE]
FormatDestroy(w, f) == IF f = NoFormat THEN w ELSE [w EXCEPT !.fmt[f].exists = FALSE]

\* mutant: a failure of device.create() is caught and not raised again
CreateDeviceExecuteSwallows(a, b, w) ==
    IF ~b.ok THEN Returned(w, <<"device.create">>, b.status)
    ELSE Returned(DeviceCreate(w, a.device), <<"device.create">>, b.status)

\* ActionCreateDevice.execute
CreateDeviceExecute(a, b, w) ==
    IF ~b.ok THEN Raised(w, <<"device.create">>, b.status)
    ELSE Returned(DeviceCreate(w, a.device), <<"device.create">>, b.status)

\* mutant: an exception of removeFromCache() is not caught
DestroyDeviceExecuteRaisesUncache(a, b, w) ==
    IF ~b.ok THEN Raised(w, <<"device.destroy">>, b.status)
    ELSE IF b.parted
         THEN IF b.uncacheOk
              THEN Returned(DeviceDestroy(w, a.device),
                            <<"device.destroy", "removeFromCache">>, b.status)
              ELSE Raised(DeviceDestroy(w, a.device),
                          <<"device.destroy", "removeFromCache">>, b.status)
         ELSE Returned(DeviceDestroy(w, a.device), <<"device.destroy">>, b.status)

\* ActionDestroyDevice.execute: an exception of removeFromCache() is passed over
DestroyDeviceExecute(a, b, w) ==
    IF ~b.ok THEN Raised(w, <<"device.destroy">>, b.status)
    ELSE IF b.parted
         THEN IF b.uncacheOk
              THEN Returned(DeviceDestroy(w, a.device),
                            <<"device.destroy", "removeFromCache">>, b.status)
              ELSE Returned(DeviceDestroy(w, a.device),
                            <<"device.destroy", "removeFromCache">>, b.status)
         ELSE Returned(DeviceDestroy(w, a.device), <<"device.destroy">>, b.status)

\* ActionResizeDevice.execute: device.resize(), whose effect on the attributes
\* of the device is not stated; the model keeps them
ResizeDeviceExecute(a, b, w) ==
    IF ~b.ok THEN Raised(w, <<"device.resize">>, b.status)
    ELSE Returned(w, <<"device.resize">>, b.status)

\* what ActionCreateFormat.execute does after format.create() returned
CreateFormatLookup(b) ==
    <<"udev_settle", "device.updateSysfsPath", "udev_get_block_device">>
    \o (IF b.lookup
        THEN (IF b.ftype # "btrfs" THEN <<"format.uuid">> ELSE <<>>)
             \o <<"device.deviceLinks">>
        ELSE IF b.ftype # "tmpfs" THEN <<"log.error">>
        ELSE <<>>)

\* mutant: the failed lookup is logged for every format type
CreateFormatExecuteLogsTmpfs(a, b, w, m) ==
    LET start == <<"device.setup">>
                 \o (IF isPartitionDevice(a.device)
                     THEN <<"disk.format.commitToDisk">> ELSE <<>>)
                 \o <<"format.create">>
    IN  IF ~b.setupOk THEN Raised(w, <<"device.setup">>, b.status)
        ELSE IF ~b.ok THEN Raised(w, start, TRUE)
        ELSE Returned(FormatCreate(w, m.format[a.device]),
                      start \o <<"udev_settle", "device.updateSysfsPath",
                                 "udev_get_block_device">>
                            \o (IF b.lookup
                                THEN (IF b.ftype # "btrfs" THEN <<"format.uuid">>
                                      ELSE <<>>) \o <<"device.deviceLinks">>
                                ELSE <<"log.error">>),
                      TRUE)

\* ActionCreateFormat.execute: sets the device up, commits the flags of a
\* partition, creates the format the device refers to now, then looks the
\* device up
CreateFormatExecute(a, b, w, m) ==
    LET start == <<"device.setup">>
                 \o (IF isPartitionDevice(a.device)
                     THEN <<"disk.format.commitToDisk">> ELSE <<>>)
                 \o <<"format.create">>
    IN  IF ~b.setupOk THEN Raised(w, <<"device.setup">>, b.status)
        ELSE IF ~b.ok THEN Raised(w, start, TRUE)
        ELSE Returned(FormatCreate(w, m.format[a.device]),
                      start \o CreateFormatLookup(b), TRUE)

\* mutant: the device is torn down whatever its status was
DestroyFormatExecuteAlwaysTearsDown(a, b, w, m) ==
    LET destroyed == FormatDestroy(w, ActionFormat(a, m)) IN
    IF ~b.setupOk THEN Raised(w, <<"device.status", "device.setup">>, b.status)
    ELSE IF ~b.ok
         THEN Raised(w, <<"device.status", "device.setup", "format.destroy">>, TRUE)
    ELSE IF ~b.teardownOk
         THEN Raised(destroyed, <<"device.status", "device.setup", "format.destroy",
                                  "udev_settle", "device.teardown">>, TRUE)
    ELSE Returned(destroyed, <<"device.status", "device.setup", "format.destroy",
                               "udev_settle", "device.teardown">>, FALSE)

\* ActionDestroyFormat.execute: destroys self.format, the format saved at
\* construction; device.setup() activates the device, device.teardown()
\* deactivates it
DestroyFormatExecute(a, b, w, m) ==
    LET destroyed == FormatDestroy(w, ActionFormat(a, m)) IN
    IF ~b.setupOk THEN Raised(w, <<"device.status", "device.setup">>, b.status)
    ELSE IF ~b.ok
         THEN Raised(w, <<"device.status", "device.setup", "format.destroy">>, TRUE)
    ELSE IF ~b.status
         THEN IF ~b.teardownOk
              THEN Raised(destroyed, <<"device.status", "device.setup",
                                       "format.destroy", "udev_settle",
                                       "device.teardown">>, TRUE)
              ELSE Returned(destroyed, <<"device.status", "device.setup",
                                         "format.destroy", "udev_settle",
                                         "device.teardown">>, FALSE)
    ELSE Returned(destroyed, <<"device.status", "device.setup", "format.destroy",
                               "udev_settle">>, TRUE)

\* ActionResizeFormat.execute: device.setup(orig=True), format.doResize()
ResizeFormatExecute(a, b, w) ==
    IF ~b.setupOk THEN Raised(w, <<"device.setup">>, b.status)
    ELSE IF ~b.ok THEN Raised(w, <<"device.setup", "format.doResize">>, TRUE)
    ELSE Returned(w, <<"device.setup", "format.doResize">>, TRUE)

\* a.execute(), dispatched on the class of a
execute(a, b, w, m) ==
    CASE isCreate(a) /\ isDevice(a) -> CreateDeviceExecute(a, b, w)
      [] isDestroy(a) /\ isDevice(a) -> DestroyDeviceExecute(a, b, w)
      [] isResize(a) /\ isDevice(a) -> ResizeDeviceExecute(a, b, w)
      [] isCreate(a) /\ isFormat(a) -> CreateFormatExecute(a, b, w, m)
      [] isDestroy(a) /\ isFormat(a) -> DestroyFormatExecute(a, b, w, m)
      [] isResize(a) /\ isFormat(a) -> ResizeFormatExecute(a, b, w)

\* the backends that differ in something execute() of a reaches: a routine
\* not reached and an attribute not read are as in QuietBackend
BackendsOf(a) ==
    LET q == QuietBackend IN
    CASE isCreate(a) /\ isDevice(a) -> {[q EXCEPT !.ok = o] : o \in BOOLEAN}
      [] isResize(a) /\ isDevice(a) -> {[q EXCEPT !.ok = o] : o \in BOOLEAN}
      [] isDestroy(a) /\ isDevice(a) ->
            {[q EXCEPT !.ok = FALSE]}
            \cup {[q EXCEPT !.parted = TRUE, !.uncacheOk = u] : u \in BOOLEAN}
            \cup {q}
      [] isResize(a) /\ isFormat(a) ->
            {[q EXCEPT !.setupOk = FALSE], [q EXCEPT !.ok = FALSE], q}
      [] isCreate(a) /\ isFormat(a) ->
            {[q EXCEPT !.setupOk = FALSE], [q EXCEPT !.ok = FALSE]}
            \cup {[q EXCEPT !.lookup = l, !.ftype = t] :
                      l \in BOOLEAN, t \in FormatTypes}
      [] isDestroy(a) /\ isFormat(a) ->
            {[q EXCEPT !.status = s, !.setupOk = FALSE] : s \in BOOLEAN}
            \cup {[q EXCEPT !.status = s, !.ok = FALSE] : s \in BOOLEAN}
            \cup {[q EXCEPT !.status = s] : s \in BOOLEAN}
            \cup {[q EXCEPT !.teardownOk = FALSE]}

(***************************************************************************)
(* apply (spec.md 4.4): execute() on each action of the order, one at a    *)
(* time, stopping at the first that raises.                                *)
(***************************************************************************)
\* the action apply() executes next
NextToExecute(r, seq) == seq[Len(r.executed) + 1]

\* mutant: apply goes on with the next action after an execute() raised
applyStepContinues(r, seq, ok) ==
    [state |-> IF Len(r.executed) + 1 = Len(seq) THEN "done" ELSE "running",
     executed |-> Append(r.executed, NextToExecute(r, seq))]

\* the state of apply() after execute() on the next action returned (ok) or
\* raised
applyStep(r, seq, ok) ==
    [state |-> IF ~ok THEN "failed"
               ELSE IF Len(r.executed) + 1 = Len(seq) THEN "done"
               ELSE "running",
     executed |-> Append(r.executed, NextToExecute(r, seq))]

(***************************************************************************)
(* Constructors.  Each returns whether construction succeeded (a ValueError *)
(* otherwise), the Device/Format model after it and the action object.     *)
(***************************************************************************)
Rejected(m) == [ok |-> FALSE, m |-> m, action |-> <<>>]
Constructed(m, a) == [ok |-> TRUE, m |-> m, action |-> a]

\* mutant: the constructor does not look at device.exists
CreateDeviceInitUnchecked(id, d, m) ==
    Constructed(m, NewAction(id, ACTION_TYPE_CREATE, ACTION_OBJECT_DEVICE,
                             d, 0, 0, 0, NoFormat))

\* ActionCreateDevice.__init__(device)
CreateDeviceInit(id, d, m) ==
    IF dev[d].exists THEN Rejected(m)
    ELSE Constructed(m, NewAction(id, ACTION_TYPE_CREATE, ACTION_OBJECT_DEVICE,
                                  d, 0, 0, 0, NoFormat))

\* ActionDestroyDevice.__init__(device)
DestroyDeviceInit(id, d, m) ==
    Constructed(m, NewAction(id, ACTION_TYPE_DESTROY, ACTION_OBJECT_DEVICE,
                             d, 0, 0, 0, NoFormat))

\* mutant: the bounds are compared with <= and >=
ResizeDeviceInitStrictBounds(id, d, newsize, m) ==
    IF ~dev[d].resizable THEN Rejected(m)
    ELSE IF dev[d].currentSize = newsize THEN Rejected(m)
    ELSE IF newsize <= dev[d].minSize THEN Rejected(m)
    ELSE IF newsize >= dev[d].maxSize THEN Rejected(m)
    ELSE LET dir == IF newsize > dev[d].currentSize THEN RESIZE_GROW
                    ELSE RESIZE_SHRINK
             origsize == IF m.targetSize[d] > 0 THEN m.targetSize[d]
                         ELSE dev[d].size
         IN Constructed([m EXCEPT !.targetSize[d] = newsize],
                        NewAction(id, ACTION_TYPE_RESIZE, ACTION_OBJECT_DEVICE,
                                  d, dir, origsize, 0, NoFormat))

\* mutant: targetSize is assigned before the size is validated
ResizeDeviceInitAssignsFirst(id, d, newsize, m) ==
    LET assigned == [m EXCEPT !.targetSize[d] = newsize] IN
    IF ~dev[d].resizable THEN Rejected(m)
    ELSE IF dev[d].currentSize = newsize THEN Rejected(assigned)
    ELSE IF newsize < dev[d].minSize THEN Rejected(assigned)
    ELSE IF newsize > dev[d].maxSize THEN Rejected(assigned)
    ELSE LET dir == IF newsize > dev[d].currentSize THEN RESIZE_GROW
                    ELSE RESIZE_SHRINK
             origsize == IF m.targetSize[d] > 0 THEN m.targetSize[d]
                         ELSE dev[d].size
         IN Constructed(assigned,
                        NewAction(id, ACTION_TYPE_RESIZE, ACTION_OBJECT_DEVICE,
                                  d, dir, origsize, 0, NoFormat))

\* ActionResizeDevice.__init__(device, newsize)
ResizeDeviceInit(id, d, newsize, m) ==
    IF ~dev[d].resizable THEN Rejected(m)
    ELSE IF dev[d].currentSize = newsize THEN Rejected(m)
    ELSE IF newsize < dev[d].minSize THEN Rejected(m)
    ELSE IF newsize > dev[d].maxSize THEN Rejected(m)
    ELSE LET dir == IF newsize > dev[d].currentSize THEN RESIZE_GROW
                    ELSE RESIZE_SHRINK
             origsize == IF m.targetSize[d] > 0 THEN m.targetSize[d]
                         ELSE dev[d].size
         IN Constructed([m EXCEPT !.targetSize[d] = newsize],
                        NewAction(id, ACTION_TYPE_RESIZE, ACTION_OBJECT_DEVICE,
                                  d, dir, origsize, 0, NoFormat))

\* ActionCreateFormat.__init__(device, format=None); f = NoFormat is None
CreateFormatInit(id, d, f, m) ==
    IF f # NoFormat
    THEN Constructed([m EXCEPT !.format[d] = f],
                     NewAction(id, ACTION_TYPE_CREATE, ACTION_OBJECT_FORMAT,
                               d, 0, 0, 0, m.format[d]))
    ELSE Constructed(m, NewAction(id, ACTION_TYPE_CREATE, ACTION_OBJECT_FORMAT,
                                  d, 0, 0, 0, NoFormat))

\* ActionDestroyFormat.__init__(device)
DestroyFormatInit(id, d, m) ==
    Constructed([m EXCEPT !.format[d] = NoFormat],
                NewAction(id, ACTION_TYPE_DESTROY, ACTION_OBJECT_FORMAT,
                          d, 0, 0, 0, m.format[d]))

\* mutant: the constructor does not look at format.resizable
ResizeFormatInitUnchecked(id, d, newsize, m) ==
    LET f == m.format[d] IN
    IF FormatCurrentSize(f) = newsize \/ f = NoFormat THEN Rejected(m)
    ELSE LET dir == IF newsize > FormatCurrentSize(f) THEN RESIZE_GROW
                    ELSE RESIZE_SHRINK
         IN Constructed(SetFormatTargetSize(m, f, newsize),
                        NewAction(id, ACTION_TYPE_RESIZE, ACTION_OBJECT_FORMAT,
                                  d, dir, 0, m.ftargetSize[f], NoFormat))

\* ActionResizeFormat.__init__(device, newsize)
ResizeFormatInit(id, d, newsize, m) ==
    LET f == m.format[d] IN
    IF ~FormatResizable(f) THEN Rejected(m)
    ELSE IF FormatCurrentSize(f) = newsize THEN Rejected(m)
    ELSE LET dir == IF newsize > FormatCurrentSize(f) THEN RESIZE_GROW
                    ELSE RESIZE_SHRINK
         IN Constructed(SetFormatTargetSize(m, f, newsize),
                        NewAction(id, ACTION_TYPE_RESIZE, ACTION_OBJECT_FORMAT,
                                  d, dir, 0, m.ftargetSize[f], NoFormat))

(***************************************************************************)
(* register (spec.md 4.2): scan the pending queue; every action the new    *)
(* one obsoletes is removed and cancelled; then the new one is inserted.   *)
(***************************************************************************)
RECURSIVE RegisterScan(_, _, _)
\* st = [m: the model, keep: the actions kept so far, cancelled: the counts]
RegisterScan(new, q, st) ==
    IF q = <<>> THEN st
    ELSE LET e == actions[Head(q)] IN
         IF obsoletes(new, e, st.m)
         THEN RegisterScan(new, Tail(q),
                           [st EXCEPT !.m = cancel(e, st.m),
                                      !.cancelled[e.id] = @ + 1])
         ELSE RegisterScan(new, Tail(q),
                           [st EXCEPT !.keep = Append(@, e.id)])

\* register(newAction): the state after the scan, newAction inserted
register(new, q, m, c) ==
    LET st == RegisterScan(new, q, [m |-> m, keep |-> <<>>, cancelled |-> c])
    IN  [st EXCEPT !.keep = Append(@, new.id)]

(***************************************************************************)
(* order (spec.md 4.3): a topological order of the queue under requires,   *)
(* the lowest id first among the actions whose requirements are emitted;   *)
(* a planning error when a cycle leaves no such action.                    *)
(***************************************************************************)
Min(S) == CHOOSE x \in S : \A y \in S : x <= y

\* mutant: on a cycle the actions emitted so far are returned as the order
RECURSIVE OrderRestPartial(_, _)
OrderRestPartial(remaining, out) ==
    IF remaining = {} THEN [state |-> "ordered", seq |-> out]
    ELSE LET ready == {a \in remaining :
                         \A b \in remaining : ~requires(actions[a], actions[b])}
         IN IF ready = {} THEN [state |-> "ordered", seq |-> out]
            ELSE OrderRestPartial(remaining \ {Min(ready)}, Append(out, Min(ready)))

\* mutant: on a cycle the lowest id is emitted and the order goes on
RECURSIVE OrderRestBreaksCycle(_, _)
OrderRestBreaksCycle(remaining, out) ==
    IF remaining = {} THEN [state |-> "ordered", seq |-> out]
    ELSE LET ready == {a \in remaining :
                         \A b \in remaining : ~requires(actions[a], actions[b])}
             pick == IF ready = {} THEN Min(remaining) ELSE Min(ready)
         IN OrderRestBreaksCycle(remaining \ {pick}, Append(out, pick))

\* mutant: among the actions that are ready the highest id is emitted
RECURSIVE OrderRestHighestFirst(_, _)
OrderRestHighestFirst(remaining, out) ==
    IF remaining = {} THEN [state |-> "ordered", seq |-> out]
    ELSE LET ready == {a \in remaining :
                         \A b \in remaining : ~requires(actions[a], actions[b])}
             pick == CHOOSE x \in ready : \A y \in ready : x >= y
         IN IF ready = {} THEN [state |-> "cycle", seq |-> <<>>]
            ELSE OrderRestHighestFirst(remaining \ {pick}, Append(out, pick))

RECURSIVE OrderRest(_, _)
OrderRest(remaining, out) ==
    IF remaining = {} THEN [state |-> "ordered", seq |-> out]
    ELSE LET ready == {a \in remaining :
                         \A b \in remaining : ~requires(actions[a], actions[b])}
         IN IF ready = {} THEN [state |-> "cycle", seq |-> <<>>]
            ELSE OrderRest(remaining \ {Min(ready)}, Append(out, Min(ready)))

\* order(pendingActions)
order(q) == OrderRest({q[i] : i \in 1..Len(q)}, <<>>)

(***************************************************************************)
(* The initial state: a populated device tree and an empty queue.          *)
(***************************************************************************)
\* what a device is: a plain StorageDevice, a partition of the disk (with its
\* partedPartition.number) or a logical volume of the volume group
Layouts ==
    {[cls |-> "StorageDevice", disk |-> 0, number |-> 0, vg |-> 0, singlePV |-> FALSE]}
    \cup {[cls |-> "PartitionDevice", disk |-> 1, number |-> n, vg |-> 0,
           singlePV |-> FALSE] : n \in 1..NumDevices}
    \cup {[cls |-> "LVMLogicalVolumeDevice", disk |-> 0, number |-> 0, vg |-> 1,
           singlePV |-> s] : s \in BOOLEAN}

\* a device that does not exist is not resizable
DeviceAttrs ==
    {[exists |-> e, resizable |-> r,
      currentSize |-> SizeProfile.currentSize, size |-> SizeProfile.currentSize,
      minSize |-> SizeProfile.minSize, maxSize |-> SizeProfile.maxSize,
      cls |-> l.cls, disk |-> l.disk, number |-> l.number, vg |-> l.vg,
      singlePV |-> l.singlePV] :
        e \in BOOLEAN, r \in BOOLEAN, l \in Layouts}

\* dependsOn is irreflexive, acyclic and transitive
DependsOnRelations ==
    {r \in SUBSET {<<a, b>> \in Devices \X Devices : a > b} :
        \A a, b, c \in Devices :
            <<a, b>> \in r /\ <<b, c>> \in r => <<a, c>> \in r}

\* a format that does not exist is not resizable
FormatAttrs(f, resizable) ==
    IF f \in OldFormats
    THEN [exists |-> TRUE, resizable |-> resizable,
          currentSize |-> SizeProfile.currentSize,
          minSize |-> SizeProfile.minSize, maxSize |-> SizeProfile.maxSize]
    ELSE [exists |-> FALSE, resizable |-> FALSE, currentSize |-> 0,
          minSize |-> 0, maxSize |-> 0]

Init ==
    /\ dev \in [Devices -> {a \in DeviceAttrs : a.cls = "StorageDevice"}]
    /\ \A d \in Devices : dev[d].resizable => dev[d].exists
    /\ \A d, e \in Devices :
           /\ d # e
           /\ dev[d].cls = "PartitionDevice" /\ dev[e].cls = "PartitionDevice"
           => dev[d].number # dev[e].number
    /\ deps \in DependsOnRelations
    /\ \E res \in [OldFormats -> BOOLEAN] :
           fmt = [f \in Formats |-> FormatAttrs(f, IF f \in OldFormats THEN res[f] ELSE FALSE)]
    \* an existing device holds its format or none; a new device holds none
    /\ format \in [Devices -> Formats]
    /\ \A d \in Devices : format[d] \in (IF dev[d].exists THEN {NoFormat, d} ELSE {NoFormat})
    /\ \A d \in Devices : format[d] = NoFormat => ~fmt[d].resizable
    /\ targetSize = [d \in Devices |-> 0]
    /\ ftargetSize = [f \in RealFormats |-> 0]
    /\ actions = <<>>
    /\ nextId = 1
    /\ fresh = 0
    /\ queue = <<>>
    /\ cancelled = <<>>
    /\ snap = NoSnap
    /\ plan = NoPlan
    /\ last = [op |-> "init", type |-> ACTION_TYPE_NONE, obj |-> ACTION_OBJECT_NONE,
               device |-> 0, size |-> 0, format |-> NoFormat, ok |-> TRUE]
    /\ run = NoRun

(***************************************************************************)
(* Operations of the caller: construct an action, then register it or      *)
(* cancel it; order the pending queue.                                     *)
(***************************************************************************)
\* a format object no device and no action refers to
Unused(f) ==
    /\ \A d \in Devices : format[d] # f
    /\ \A i \in 1..Len(actions) : actions[i].origFormat # f

\* the format object the caller makes next: new formats are alike, so the
\* one with the lowest number stands for any of them
NextNewFormat(f) ==
    /\ f \in NewFormats
    /\ Unused(f)
    /\ \A g \in NewFormats : Unused(g) => f <= g

CanConstruct == fresh = 0 /\ plan.state = "none" /\ nextId <= MaxActions

\* the effect of a constructor call with result res
Construct(res, type, obj, d, size, f) ==
    /\ targetSize' = res.m.targetSize
    /\ format' = res.m.format
    /\ ftargetSize' = res.m.ftargetSize
    /\ snap' = Model
    /\ last' = [op |-> "construct", type |-> type, obj |-> obj, device |-> d,
                size |-> size, format |-> f, ok |-> res.ok]
    /\ IF res.ok
       THEN /\ actions' = Append(actions, res.action)
            /\ cancelled' = Append(cancelled, 0)
            /\ nextId' = nextId + 1
            /\ fresh' = nextId
       ELSE UNCHANGED <<actions, cancelled, nextId, fresh>>
    /\ UNCHANGED <<dev, deps, fmt, queue, plan, run>>

ConstructCreateDevice(d) ==
    /\ CanConstruct
    /\ Construct(CreateDeviceInit(nextId, d, Model),
                 ACTION_TYPE_CREATE, ACTION_OBJECT_DEVICE, d, 0, NoFormat)

ConstructDestroyDevice(d) ==
    /\ CanConstruct
    /\ Construct(DestroyDeviceInit(nextId, d, Model),
                 ACTION_TYPE_DESTROY, ACTION_OBJECT_DEVICE, d, 0, NoFormat)

ConstructResizeDevice(d, newsize) ==
    /\ CanConstruct
    /\ Construct(ResizeDeviceInit(nextId, d, newsize, Model),
                 ACTION_TYPE_RESIZE, ACTION_OBJECT_DEVICE, d, newsize, NoFormat)

ConstructCreateFormat(d, f) ==
    /\ CanConstruct
    /\ f = NoFormat \/ NextNewFormat(f)
    /\ Construct(CreateFormatInit(nextId, d, f, Model),
                 ACTION_TYPE_CREATE, ACTION_OBJECT_FORMAT, d, 0, f)

ConstructDestroyFormat(d) ==
    /\ CanConstruct
    /\ Construct(DestroyFormatInit(nextId, d, Model),
                 ACTION_TYPE_DESTROY, ACTION_OBJECT_FORMAT, d, 0, NoFormat)

ConstructResizeFormat(d, newsize) ==
    /\ CanConstruct
    /\ Construct(ResizeFormatInit(nextId, d, newsize, Model),
                 ACTION_TYPE_RESIZE, ACTION_OBJECT_FORMAT, d, newsize, NoFormat)

\* register(newAction) on the action just constructed
Register ==
    /\ fresh # 0
    /\ LET st == register(actions[fresh], queue, Model, cancelled) IN
       /\ queue' = st.keep
       /\ cancelled' = st.cancelled
       /\ targetSize' = st.m.targetSize
       /\ format' = st.m.format
       /\ ftargetSize' = st.m.ftargetSize
    /\ fresh' = 0
    /\ snap' = NoSnap
    /\ last' = [last EXCEPT !.op = "register"]
    /\ UNCHANGED <<dev, deps, fmt, actions, nextId, plan, run>>

\* the caller abandons the plan at the action just constructed: a.cancel()
Cancel ==
    /\ fresh # 0
    /\ plan' = [state |-> "abandoned", seq |-> <<>>]
    /\ LET m == cancel(actions[fresh], Model) IN
       /\ targetSize' = m.targetSize
       /\ format' = m.format
       /\ ftargetSize' = m.ftargetSize
    /\ cancelled' = [cancelled EXCEPT ![fresh] = @ + 1]
    /\ fresh' = 0
    /\ last' = [last EXCEPT !.op = "cancel"]
    /\ UNCHANGED <<dev, deps, fmt, actions, nextId, queue, snap, run>>

\* order(pendingActions)
Order ==
    /\ fresh = 0
    /\ plan.state = "none"
    /\ queue # <<>>
    /\ plan' = order(queue)
    /\ last' = [last EXCEPT !.op = "order"]
    /\ UNCHANGED <<dev, deps, fmt, targetSize, format, ftargetSize, actions,
                   nextId, fresh, queue, cancelled, snap, run>>

\* one iteration of apply(plan.seq): execute() on the next action
Execute(b) ==
    /\ plan.state = "ordered"
    /\ run.state \in {"none", "running"}
    /\ Len(run.executed) < Len(plan.seq)
    /\ LET a == actions[NextToExecute(run, plan.seq)]
           res == execute(a, b, [dev |-> dev, fmt |-> fmt], Model)
       IN  /\ b \in BackendsOf(a)
           /\ dev' = res.w.dev
           /\ fmt' = res.w.fmt
           /\ run' = applyStep(run, plan.seq, res.ok)
           \* last.raised: a routine of the device or format raised;
           \* last.id: the action; last.backend, last.calls, last.status: what
           \* the backend did, what execute() called, device.status after it
           /\ last' = [op |-> "execute", type |-> a.type, obj |-> a.obj,
                       device |-> a.device, size |-> 0, format |-> NoFormat,
                       ok |-> res.ok,
                       raised |-> ~(b.ok /\ b.setupOk /\ b.teardownOk),
                       id |-> a.id, backend |-> b, calls |-> res.calls,
                       status |-> res.status]
    /\ UNCHANGED <<deps, targetSize, format, ftargetSize, actions, nextId,
                   fresh, queue, cancelled, snap, plan>>

Next ==
    \/ \E d \in Devices : ConstructCreateDevice(d)
    \/ \E d \in Devices : ConstructDestroyDevice(d)
    \/ \E d \in Devices, newsize \in Sizes : ConstructResizeDevice(d, newsize)
    \/ \E d \in Devices, f \in {NoFormat} \cup NewFormats : ConstructCreateFormat(d, f)
    \/ \E d \in Devices : ConstructDestroyFormat(d)
    \/ \E d \in Devices, newsize \in FormatSizes : ConstructResizeFormat(d, newsize)
    \/ Register
    \/ Cancel
    \/ Order

Spec == Init /\ [][Next]_vars

(***************************************************************************)
(* Planning and applying: device 1 exists, is resizable and holds a        *)
(* resizable format; every other device depends on device 1.               *)
(***************************************************************************)
InitApply ==
    /\ Init
    /\ dev[1].exists /\ dev[1].resizable
    /\ format[1] = 1 /\ fmt[1].resizable
    /\ deps = {<<d, 1>> : d \in Devices \ {1}}

\* the backends of the execute() that apply() calls next
BackendsNow ==
    IF plan.state = "ordered" /\ Len(run.executed) < Len(plan.seq)
    THEN BackendsOf(actions[NextToExecute(run, plan.seq)])
    ELSE {}

NextApply ==
    \/ Next
    \/ \E b \in BackendsNow : Execute(b)

SpecApply == InitApply /\ [][NextApply]_vars

(***************************************************************************)
(* Partitions: every device is a partition of one of the disks; two        *)
(* partitions of one disk have different numbers.  The partitions are not  *)
(* resizable and hold no format.                                           *)
(***************************************************************************)
PartitionAttrs ==
    {[exists |-> e, resizable |-> FALSE,
      currentSize |-> SizeProfile.currentSize, size |-> SizeProfile.currentSize,
      minSize |-> SizeProfile.minSize, maxSize |-> SizeProfile.maxSize,
      cls |-> "PartitionDevice", disk |-> k, number |-> n, vg |-> 0,
      singlePV |-> FALSE] :
        e \in BOOLEAN, k \in 1..NumDisks, n \in 1..NumDevices}

InitParts ==
    /\ dev \in [Devices -> PartitionAttrs]
    /\ \A d, e \in Devices :
           d # e /\ dev[d].disk = dev[e].disk => dev[d].number # dev[e].number
    /\ deps \in DependsOnRelations
    /\ fmt = [f \in Formats |-> FormatAttrs(f, FALSE)]
    /\ format = [d \in Devices |-> NoFormat]
    /\ targetSize = [d \in Devices |-> 0]
    /\ ftargetSize = [f \in RealFormats |-> 0]
    /\ actions = <<>>
    /\ nextId = 1
    /\ fresh = 0
    /\ queue = <<>>
    /\ cancelled = <<>>
    /\ snap = NoSnap
    /\ plan = NoPlan
    /\ last = [op |-> "init", type |-> ACTION_TYPE_NONE, obj |-> ACTION_OBJECT_NONE,
               device |-> 0, size |-> 0, format |-> NoFormat, ok |-> TRUE]
    /\ run = NoRun

SpecParts == InitParts /\ [][Next]_vars

(***************************************************************************)
(* The device tree whose devices are logical volumes of the volume groups, *)
(* each restricted to a single physical volume or not.                     *)
(***************************************************************************)
LogicalVolumeAttrs ==
    {[exists |-> e, resizable |-> FALSE,
      currentSize |-> SizeProfile.currentSize, size |-> SizeProfile.currentSize,
      minSize |-> SizeProfile.minSize, maxSize |-> SizeProfile.maxSize,
      cls |-> "LVMLogicalVolumeDevice", disk |-> 0, number |-> 0, vg |-> g,
      singlePV |-> p] :
        e \in BOOLEAN, g \in 1..NumVGs, p \in BOOLEAN}

InitLVs ==
    /\ dev \in [Devices -> LogicalVolumeAttrs]
    /\ deps \in DependsOnRelations
    /\ fmt = [f \in Formats |-> FormatAttrs(f, FALSE)]
    /\ format = [d \in Devices |-> NoFormat]
    /\ targetSize = [d \in Devices |-> 0]
    /\ ftargetSize = [f \in RealFormats |-> 0]
    /\ actions = <<>>
    /\ nextId = 1
    /\ fresh = 0
    /\ queue = <<>>
    /\ cancelled = <<>>
    /\ snap = NoSnap
    /\ plan = NoPlan
    /\ last = [op |-> "init", type |-> ACTION_TYPE_NONE, obj |-> ACTION_OBJECT_NONE,
               device |-> 0, size |-> 0, format |-> NoFormat, ok |-> TRUE]
    /\ run = NoRun

SpecLVs == InitLVs /\ [][Next]_vars

(***************************************************************************)
(* Helpers of the properties.                                              *)
(***************************************************************************)
\* the ids of a sequence of ids
Ids(q) == {q[i] : i \in 1..Len(q)}

\* the position of id in the sequence q (0 when it is not in q)
Pos(q, id) == IF id \in Ids(q) THEN CHOOSE i \in 1..Len(q) : q[i] = id ELSE 0

\* the step is a call of register(): it follows a successful construction
IsRegisterStep == last.op = "construct" /\ fresh # 0 /\ last'.op = "register"

\* a and b have the same (device, type, object) triple
SameTriple(a, b) == a.device = b.device /\ a.type = b.type /\ a.obj = b.obj

(***************************************************************************)
(* C1: for every reachable pending queue, order(queue) places b strictly   *)
(* before a for every pair of queued actions with a.requires(b).           *)
(***************************************************************************)
C1_OrderPlacesRequiredFirst ==
    plan.state \in {"ordered", "cycle"} =>
        /\ plan.state = "ordered"
        /\ \A a, b \in Ids(queue) :
               requires(actions[a], actions[b]) => Pos(plan.seq, b) < Pos(plan.seq, a)

\* what does hold: a sequence that order() returns respects every requires edge
OrderedPlanRespectsRequires ==
    plan.state = "ordered" =>
        \A a, b \in Ids(queue) :
            requires(actions[a], actions[b]) => Pos(plan.seq, b) < Pos(plan.seq, a)

(***************************************************************************)
(* C2: whenever order() returns a sequence, it is a permutation of the     *)
(* queue: every queued action exactly once and no other action.            *)
(***************************************************************************)
C2_OrderIsPermutation ==
    plan.state = "ordered" =>
        /\ Len(plan.seq) = Len(queue)
        /\ Ids(plan.seq) = Ids(queue)
        /\ \A i, j \in 1..Len(plan.seq) : plan.seq[i] = plan.seq[j] => i = j

\* order() returned a sequence that differs from the queue it was given
C2_Witness ==
    /\ plan.state = "ordered"
    /\ Len(queue) >= 2
    /\ plan.seq # queue

(***************************************************************************)
(* C3: the pending queue never holds two actions with the same (device,    *)
(* type, object) triple.                                                   *)
(***************************************************************************)
C3_OneActionPerTriple ==
    \A i, j \in 1..Len(queue) :
        i # j => ~SameTriple(actions[queue[i]], actions[queue[j]])

\* the queue holds two actions with the same triple
TwoActionsOfOneTriple ==
    \E i, j \in 1..Len(queue) :
        i # j /\ SameTriple(actions[queue[i]], actions[queue[j]])

C5_SuccessiveResizesKeepLatest ==
    [][(/\ IsRegisterStep
        /\ isResize(actions[fresh])
        /\ \E id \in Ids(queue) : SameTriple(actions[id], actions[fresh]))
       =>
        LET n == actions[fresh] IN
        /\ Cardinality({id \in Ids(queue') : SameTriple(actions[id], n)}) = 1
        /\ isDevice(n) => targetSize'[n.device] = last.size
        /\ isFormat(n) /\ format'[n.device] # NoFormat
               => ftargetSize'[format'[n.device]] = last.size
      ]_vars

(***************************************************************************)
(* C6: registering an ActionDestroyDevice for a device that does not exist *)
(* removes and cancels every previously queued action on that device,      *)
(* whatever its kind; the actions on other devices stay in the queue.      *)
(***************************************************************************)
C6_DestroyNewDeviceClearsDevice ==
    [][(/\ IsRegisterStep
        /\ isDestroy(actions[fresh]) /\ isDevice(actions[fresh])
        /\ ~dev[actions[fresh].device].exists)
       =>
        LET n == actions[fresh]
            OnOther(id) == actions[id].device # n.device
        IN  /\ \A id \in Ids(queue) :
                   actions[id].device = n.device
                       => id \notin Ids(queue') /\ cancelled'[id] = cancelled[id] + 1
            /\ SelectSeq(queue', OnOther) = SelectSeq(queue, OnOther)
            /\ \A id \in Ids(queue) : OnOther(id) => cancelled'[id] = cancelled[id]
            /\ \A id \in Ids(queue') : actions[id].device = n.device => id = n.id
      ]_vars

\* a DestroyDevice of a new device was registered over a CreateDevice of that
\* device, which it removed and cancelled, with an action on another device
\* pending
C6_Witness ==
    /\ last.op = "register"
    /\ last.type = ACTION_TYPE_DESTROY /\ last.obj = ACTION_OBJECT_DEVICE
    /\ ~dev[last.device].exists
    /\ \E c \in 1..Len(actions) :
           /\ actions[c].device = last.device
           /\ isCreate(actions[c]) /\ isDevice(actions[c])
           /\ cancelled[c] = 1
           /\ c \notin Ids(queue)
    /\ \E i \in 1..Len(queue) : actions[queue[i]].device # last.device

(***************************************************************************)
(* C7: constructing an action and then immediately calling cancel() leaves *)
(* the device's targetSize, the format's targetSize and the device's       *)
(* format reference exactly as they were before the construction.          *)
(***************************************************************************)
C7_CancelUndoesConstruction ==
    last.op = "cancel" => Model = snap

\* a construction was cancelled and the model differs from the one before it
CancelLeavesModelChanged ==
    last.op = "cancel" /\ Model # snap

C9_InvalidTargetsRejected ==
    last.op = "construct" =>
        LET d == last.device IN
        /\ (/\ last.type = ACTION_TYPE_CREATE /\ last.obj = ACTION_OBJECT_DEVICE
            /\ dev[d].exists) => ~last.ok
        /\ (/\ last.type = ACTION_TYPE_RESIZE /\ last.obj = ACTION_OBJECT_DEVICE
            /\ ~dev[d].resizable) => ~last.ok
        /\ (/\ last.type = ACTION_TYPE_RESIZE /\ last.obj = ACTION_OBJECT_FORMAT
            /\ ~FormatResizable(format[d])) => ~last.ok

\* a resize of a device that is not resizable, to a size within its bounds,
\* was rejected
C9_Witness ==
    /\ last.op = "construct" /\ ~last.ok
    /\ last.type = ACTION_TYPE_RESIZE /\ last.obj = ACTION_OBJECT_DEVICE
    /\ ~dev[last.device].resizable
    /\ dev[last.device].minSize < last.size /\ last.size < dev[last.device].maxSize
    /\ last.size # dev[last.device].currentSize

(***************************************************************************)
(* C10: a rejected construction leaves the device's targetSize and format  *)
(* reference, the format's targetSize and the pending queue as they were.  *)
(***************************************************************************)
C10_RejectedConstructionChangesNothing ==
    [][(last'.op = "construct" /\ ~last'.ok)
       => UNCHANGED <<targetSize, format, ftargetSize, queue>>]_vars

\* a construction was rejected while actions were pending and a device had a
\* target size
C10_Witness ==
    /\ last.op = "construct" /\ ~last.ok
    /\ queue # <<>>
    /\ \E d \in Devices : targetSize[d] > 0

(***************************************************************************)
(* Helpers of the properties on requires and on the order.                 *)
(***************************************************************************)
\* a and b require each other
MutuallyRequire(a, b) == requires(a, b) /\ requires(b, a)

\* the requires relation over the actions of q has a cycle: a non-empty set
\* of them in which each requires another one of the set
RequiresCycle(q) ==
    \E S \in SUBSET Ids(q) :
        /\ S # {}
        /\ \A a \in S : \E b \in S : requires(actions[a], actions[b])

(***************************************************************************)
(* C11: in every pending queue reachable by constructions and              *)
(* registrations over an irreflexive and acyclic dependsOn relation, no    *)
(* two queued actions require each other and the requires relation over    *)
(* the queue has no cycle.                                                 *)
(***************************************************************************)
C11_RequiresIsAcyclic ==
    /\ \A a, b \in Ids(queue) : ~MutuallyRequire(actions[a], actions[b])
    /\ ~RequiresCycle(queue)

\* a shrink of a device is queued with a grow of a device it depends on, and
\* the two require each other
ShrinkAndGrowRequireEachOther ==
    \E a, b \in Ids(queue) :
        /\ isShrink(actions[a]) /\ isGrow(actions[b])
        /\ dependsOn(actions[a].device, actions[b].device)
        /\ MutuallyRequire(actions[a], actions[b])

(***************************************************************************)
(* C12: if the requires relation over the queue given to order() has a     *)
(* cycle, order() fails with a planning error and returns no sequence, and *)
(* no execute() has run.                                                   *)
(***************************************************************************)
C12_CycleFailsBeforeExecution ==
    (plan.state \in {"ordered", "cycle"} /\ RequiresCycle(queue)) =>
        /\ plan.state = "cycle"
        /\ plan.seq = <<>>
        /\ run.state = "none"
        /\ run.executed = <<>>

\* order() failed on a queue with a cycle and an action that requires none
C12_Witness ==
    /\ plan.state = "cycle"
    /\ RequiresCycle(queue)
    /\ \E a \in Ids(queue) : \A b \in Ids(queue) : ~requires(actions[a], actions[b])

\* the queued actions that can be emitted at position i of the order seq:
\* not emitted yet, every action they require emitted
Candidates(seq, i) ==
    LET emitted == {seq[j] : j \in 1..(i - 1)} IN
    {a \in Ids(queue) \ emitted :
        \A b \in Ids(queue) : requires(actions[a], actions[b]) => b \in emitted}

\* the sequences that hold the ids of q in some order
PermutationsOf(q) == {p \in [1..Len(q) -> Ids(q)] : Ids(p) = Ids(q)}

C14_ApplyStopsAtFirstFailure ==
    [][/\ last'.op = "execute" =>
              \* the next action of the order, and no other, is executed
              /\ plan.state = "ordered" /\ plan' = plan
              /\ Len(run.executed) < Len(plan.seq)
              /\ run'.executed = Append(run.executed, plan.seq[Len(run.executed) + 1])
              \* every execute() before it returned
              /\ run.state # "failed"
              /\ run.executed # <<>> => last.op = "execute" /\ last.ok
              \* execute() raises what the routine of the device or format
              \* raised, and a failure ends apply
              /\ last'.raised => ~last'.ok
              /\ run'.state = "failed" <=> ~last'.ok
              \* nothing is cancelled or reverted
              /\ UNCHANGED <<cancelled, targetSize, format, ftargetSize, queue>>
       /\ run.state = "failed" =>
              UNCHANGED <<run, dev, fmt, cancelled, targetSize, format,
                          ftargetSize, queue>>
      ]_vars

\* the second execute() of an order of three actions raised after the first
\* created a device, which still exists
C14_Witness ==
    /\ run.state = "failed"
    /\ last.op = "execute" /\ last.raised
    /\ Len(plan.seq) = 3 /\ Len(run.executed) = 2
    /\ LET first == actions[run.executed[1]] IN
       /\ isCreate(first) /\ isDevice(first)
       /\ dev[first.device].exists
    /\ \A id \in Ids(queue) : cancelled[id] = 0

\* a and b are actions of the same kind on two partitions of one disk with
\* different numbers, neither partition depending on the other
UnrelatedPartitionsOfOneDisk(a, b) ==
    /\ isDevice(a) /\ isDevice(b) /\ a.type = b.type
    /\ isPartitionDevice(a.device) /\ isPartitionDevice(b.device)
    /\ dev[a.device].disk = dev[b.device].disk
    /\ dev[a.device].number # dev[b.device].number
    /\ ~dependsOn(a.device, b.device) /\ ~dependsOn(b.device, a.device)

(***************************************************************************)
(* C15: of two ActionCreateDevice actions on partitions of one disk with   *)
(* different numbers and no dependsOn relation between the partitions, the *)
(* one on the higher number requires the one on the lower number and not   *)
(* the other way round; every schedule creates them in ascending order of  *)
(* the partition numbers, whatever the order of registration.              *)
(***************************************************************************)
C15_PartitionsCreatedAscending ==
    /\ \A i, j \in 1..Len(actions) :
           LET a == actions[i]
               b == actions[j]
           IN  (/\ isCreate(a) /\ UnrelatedPartitionsOfOneDisk(a, b)
                /\ dev[a.device].number > dev[b.device].number)
               => requires(a, b) /\ ~requires(b, a)
    /\ plan.state = "ordered" =>
           \A i, j \in Ids(queue) :
               LET a == actions[i]
                   b == actions[j]
               IN  (/\ isCreate(a) /\ UnrelatedPartitionsOfOneDisk(a, b)
                    /\ dev[a.device].number > dev[b.device].number)
                   => Pos(plan.seq, j) < Pos(plan.seq, i)

\* the partition with the higher number was registered first and is created
\* second
C15_Witness ==
    /\ plan.state = "ordered"
    /\ \E i, j \in Ids(queue) :
           /\ i < j
           /\ isCreate(actions[i])
           /\ UnrelatedPartitionsOfOneDisk(actions[i], actions[j])
           /\ dev[actions[i].device].number > dev[actions[j].device].number
           /\ Pos(plan.seq, j) < Pos(plan.seq, i)

(***************************************************************************)
(* C16: of two ActionDestroyDevice actions on partitions of one disk with  *)
(* different numbers and no dependsOn relation between the partitions, the *)
(* one on the lower number requires the one on the higher number and not   *)
(* the other way round; every schedule destroys them in descending order   *)
(* of the partition numbers, whatever the order of registration.           *)
(***************************************************************************)
C16_PartitionsDestroyedDescending ==
    /\ \A i, j \in 1..Len(actions) :
           LET a == actions[i]
               b == actions[j]
           IN  (/\ isDestroy(a) /\ UnrelatedPartitionsOfOneDisk(a, b)
                /\ dev[a.device].number < dev[b.device].number)
               => requires(a, b) /\ ~requires(b, a)
    /\ plan.state = "ordered" =>
           \A i, j \in Ids(queue) :
               LET a == actions[i]
                   b == actions[j]
               IN  (/\ isDestroy(a) /\ UnrelatedPartitionsOfOneDisk(a, b)
                    /\ dev[a.device].number < dev[b.device].number)
                   => Pos(plan.seq, j) < Pos(plan.seq, i)

\* the partition with the lower number was registered first and is destroyed
\* second
C16_Witness ==
    /\ plan.state = "ordered"
    /\ \E i, j \in Ids(queue) :
           /\ i < j
           /\ isDestroy(actions[i])
           /\ UnrelatedPartitionsOfOneDisk(actions[i], actions[j])
           /\ dev[actions[i].device].number < dev[actions[j].device].number
           /\ Pos(plan.seq, j) < Pos(plan.seq, i)

(***************************************************************************)
(* Helpers of the properties on obsoletes.                                 *)
(***************************************************************************)
\* the actions constructed so far
ConstructedActions == {actions[i] : i \in 1..Len(actions)}

isDestroyFormat(a) == isDestroy(a) /\ isFormat(a)
isDestroyDevice(a) == isDestroy(a) /\ isDevice(a)
isCreateFormat(a) == isCreate(a) /\ isFormat(a)

\* a.format.exists: the format of a format destruction is the one saved at
\* its construction, that of any other action the device's format
ActionFormatExists(a) ==
    IF isDestroyFormat(a) THEN FormatExists(a.origFormat)
    ELSE FormatExists(format[a.device])

(***************************************************************************)
(* C17: ActionDestroyFormat d obsoletes an action a exactly when a is a    *)
(* format action on the same device and a has a lower id than d or is d    *)
(* itself with d's saved format not existing; except that d does not       *)
(* obsolete a when d's format does not exist and a's does.  A destroy of a *)
(* format that does not exist never obsoletes a destroy of an existing     *)
(* format on the same device, which stays pending.                         *)
(***************************************************************************)
C17_DestroyFormatObsoletes ==
    /\ [](\A d, a \in ConstructedActions :
            isDestroyFormat(d) =>
                (obsoletes(d, a, Model) <=>
                    /\ isFormat(a) /\ a.device = d.device
                    /\ \/ a.id < d.id
                       \/ a.id = d.id /\ ~FormatExists(d.origFormat)
                    /\ ~(~FormatExists(d.origFormat) /\ ActionFormatExists(a))))
    /\ [][(/\ IsRegisterStep
            /\ isDestroyFormat(actions[fresh])
            /\ ~FormatExists(actions[fresh].origFormat))
           =>
            \A id \in Ids(queue) :
                (/\ isDestroyFormat(actions[id])
                 /\ actions[id].device = actions[fresh].device
                 /\ FormatExists(actions[id].origFormat))
                => /\ id \in Ids(queue')
                   /\ cancelled'[id] = cancelled[id]
          ]_vars

\* the destroy of a format that does not exist was registered, and the
\* destroy of the existing format of the same device is still pending
C17_Witness ==
    /\ last.op = "register"
    /\ \E i, j \in Ids(queue) :
           /\ i < j /\ j = Len(actions)
           /\ isDestroyFormat(actions[i]) /\ isDestroyFormat(actions[j])
           /\ actions[i].device = actions[j].device
           /\ FormatExists(actions[i].origFormat)
           /\ ~FormatExists(actions[j].origFormat)
           /\ cancelled[i] = 0

(***************************************************************************)
(* C18: ActionDestroyDevice d obsoletes an action a on the same device:    *)
(* when the device does not exist, every action with a lower id of any     *)
(* kind and d itself; when the device exists, every action with a lower id *)
(* except ActionDestroyFormat actions, and not d itself.  It obsoletes no  *)
(* action with a higher id.                                                *)
(***************************************************************************)
C18_DestroyDeviceObsoletes ==
    \A d, a \in ConstructedActions :
        (isDestroyDevice(d) /\ a.device = d.device) =>
            /\ ~dev[d.device].exists =>
                   (obsoletes(d, a, Model) <=> a.id <= d.id)
            /\ dev[d.device].exists =>
                   (obsoletes(d, a, Model) <=> a.id < d.id /\ ~isDestroyFormat(a))
            /\ a.id > d.id => ~obsoletes(d, a, Model)

\* the destruction of an existing device was registered: a format destruction
\* on the device is still pending and another action on it was removed
C18_Witness ==
    /\ last.op = "register"
    /\ isDestroyDevice(actions[Len(actions)])
    /\ dev[last.device].exists
    /\ \E i \in Ids(queue), j \in 1..Len(actions) :
           /\ isDestroyFormat(actions[i])
           /\ actions[i].device = last.device /\ actions[j].device = last.device
           /\ i < Len(actions) /\ j < Len(actions)
           /\ j \notin Ids(queue) /\ cancelled[j] = 1

(***************************************************************************)
(* C19: ActionCreateFormat c obsoletes an action a exactly when a is a     *)
(* format action (create, destroy or resize) on the same device with a     *)
(* lower id than c, except an ActionDestroyFormat whose format exists; it  *)
(* never obsoletes a device action.                                        *)
(***************************************************************************)
C19_CreateFormatObsoletes ==
    \A c, a \in ConstructedActions :
        isCreateFormat(c) =>
            /\ obsoletes(c, a, Model) <=>
                   /\ isFormat(a) /\ a.device = c.device
                   /\ a.id < c.id
                   /\ ~(isDestroyFormat(a) /\ FormatExists(a.origFormat))
            /\ isDevice(a) => ~obsoletes(c, a, Model)

\* a format creation was registered: the destruction of the existing format
\* of the device is still pending and an older format action was removed
C19_Witness ==
    /\ last.op = "register"
    /\ isCreateFormat(actions[Len(actions)])
    /\ \E i \in Ids(queue), j \in 1..Len(actions) :
           /\ isDestroyFormat(actions[i]) /\ FormatExists(actions[i].origFormat)
           /\ actions[i].device = last.device
           /\ isFormat(actions[j]) /\ actions[j].device = last.device
           /\ j < Len(actions)
           /\ j \notin Ids(queue) /\ cancelled[j] = 1

(***************************************************************************)
(* C20: for all actions a and b, a.obsoletes(b) implies that a and b act   *)
(* on the same device and that b.id <= a.id; an action obsoletes itself    *)
(* only if it is a DestroyDevice of a device that does not exist or a      *)
(* DestroyFormat of a format that does not exist.                          *)
(***************************************************************************)
C20_ObsoletesSameDeviceNotLater ==
    \A a, b \in ConstructedActions :
        obsoletes(a, b, Model) =>
            /\ a.device = b.device
            /\ b.id <= a.id
            /\ b.id = a.id =>
                   \/ isDestroyDevice(a) /\ ~dev[a.device].exists
                   \/ isDestroyFormat(a) /\ ~FormatExists(a.origFormat)

\* three actions on two devices are constructed; one obsoletes itself and one
\* obsoletes an older one
C20_Witness ==
    /\ Len(actions) = 3
    /\ \E a, b \in ConstructedActions : a.device # b.device
    /\ \E a \in ConstructedActions : obsoletes(a, a, Model)
    /\ \E a, b \in ConstructedActions : a.id > b.id /\ obsoletes(a, b, Model)

(***************************************************************************)
(* C21: in every schedule, for two resize actions x and y: on one device,  *)
(* when both shrink the ResizeFormat precedes the ResizeDevice and when    *)
(* both grow the ResizeDevice precedes the ResizeFormat; when the device   *)
(* of x depends on the device of y, x precedes y if x is a shrink and y    *)
(* precedes x if y is a grow.                                              *)
(***************************************************************************)
C21_ResizeOrdering ==
    plan.state = "ordered" =>
        \A i, j \in 1..Len(plan.seq) :
            LET x == actions[plan.seq[i]]
                y == actions[plan.seq[j]]
            IN  (i # j /\ isResize(x) /\ isResize(y)) =>
                  /\ (/\ x.device = y.device
                      /\ isShrink(x) /\ isShrink(y)
                      /\ isFormat(x) /\ isDevice(y)) => i < j
                  /\ (/\ x.device = y.device
                      /\ isGrow(x) /\ isGrow(y)
                      /\ isDevice(x) /\ isFormat(y)) => i < j
                  /\ (dependsOn(x.device, y.device) /\ isShrink(x)) => i < j
                  /\ (dependsOn(x.device, y.device) /\ isGrow(y)) => j < i

\* a schedule holds a shrink on a device before a resize action on the device
\* it depends on, although the shrink was registered later
C21_Witness ==
    /\ plan.state = "ordered"
    /\ \E i, j \in 1..Len(plan.seq) :
           /\ i < j
           /\ plan.seq[i] > plan.seq[j]
           /\ isShrink(actions[plan.seq[i]])
           /\ isResize(actions[plan.seq[j]])
           /\ dependsOn(actions[plan.seq[i]].device, actions[plan.seq[j]].device)

\* how many times execute() called the routine (or assigned the attribute) c
Count(calls, c) == Cardinality({i \in DOMAIN calls : calls[i] = c})

\* the last step was execute() of an action of this type and object
Executed(type, obj) == last.op = "execute" /\ last.type = type /\ last.obj = obj

(***************************************************************************)
(* C22: when ActionCreateFormat.execute has created the format and the     *)
(* lookup of the device returns nothing, execute returns for every format  *)
(* type and apply goes on; one error is logged unless the type is "tmpfs", *)
(* for which nothing is logged.  When the lookup returns a descriptor the  *)
(* device's links are recorded for every type and the format's uuid for    *)
(* every type but "btrfs", and nothing is logged.                          *)
(***************************************************************************)
C22_CreateFormatLookup ==
    (/\ Executed(ACTION_TYPE_CREATE, ACTION_OBJECT_FORMAT)
     /\ last.backend.setupOk /\ last.backend.ok) =>
        /\ last.ok
        /\ run.state \in {"running", "done"}
        /\ ~last.backend.lookup =>
              /\ Count(last.calls, "log.error") =
                     (IF last.backend.ftype = "tmpfs" THEN 0 ELSE 1)
              /\ Count(last.calls, "format.uuid") = 0
              /\ Count(last.calls, "device.deviceLinks") = 0
        /\ last.backend.lookup =>
              /\ Count(last.calls, "log.error") = 0
              /\ Count(last.calls, "device.deviceLinks") = 1
              /\ Count(last.calls, "format.uuid") =
                     (IF last.backend.ftype = "btrfs" THEN 0 ELSE 1)

\* the lookup failed for a format that is not a tmpfs, and apply has an
\* action left to execute
C22_Witness ==
    /\ Executed(ACTION_TYPE_CREATE, ACTION_OBJECT_FORMAT)
    /\ last.backend.setupOk /\ last.backend.ok
    /\ ~last.backend.lookup
    /\ last.backend.ftype = "ext4"
    /\ run.state = "running"
    /\ Count(last.calls, "log.error") = 1

C25_PendingIntentInEffect ==
    [][(IsRegisterStep /\ isFormat(actions[fresh]))
       =>
        LET n == actions[fresh] IN
        /\ n.id = queue'[Len(queue')]
        /\ \A id \in Ids(queue') : id <= n.id
        /\ (isCreate(n) /\ last.format # NoFormat)
               => format'[n.device] = last.format
        /\ isDestroy(n) => format'[n.device] = NoFormat
      ]_vars

C27_CreateFormatOrdering ==
    /\ \A a, b \in ConstructedActions :
           (isCreateFormat(a) /\ requires(a, b)) =>
               /\ ~isDestroyDevice(b)
               /\ ~(isFormat(b) /\ b.device = a.device)
    /\ plan.state = "ordered" =>
           \A i, j \in 1..Len(plan.seq) :
               LET x == actions[plan.seq[i]]
                   y == actions[plan.seq[j]]
               IN  isCreateFormat(x) =>
                     /\ (/\ isDevice(y) /\ (isCreate(y) \/ isResize(y))
                         /\ x.device = y.device) => j < i
                     /\ (/\ dependsOn(x.device, y.device)
                         /\ ~isDestroyDevice(y)) => j < i

\* a schedule holds a CreateFormat after an action on its own device and
\* after an action on a device it depends on, both registered after it
C27_Witness ==
    /\ plan.state = "ordered"
    /\ \E i, j, k \in 1..Len(plan.seq) :
           /\ j < i /\ k < i
           /\ plan.seq[j] > plan.seq[i] /\ plan.seq[k] > plan.seq[i]
           /\ isCreateFormat(actions[plan.seq[i]])
           /\ isDevice(actions[plan.seq[j]])
           /\ actions[plan.seq[j]].device = actions[plan.seq[i]].device
           /\ dependsOn(actions[plan.seq[i]].device, actions[plan.seq[k]].device)

\* the calls of ActionDestroyFormat.execute in the order of the claim
DestroyFormatSteps ==
    <<"device.status", "device.setup", "format.destroy", "udev_settle",
      "device.teardown">>

(***************************************************************************)
(* C29: ActionDestroyFormat.execute reads device.status, sets the device   *)
(* up, destroys the format saved at construction (not the format the       *)
(* device refers to now), settles, and tears the device down exactly when  *)
(* it was not active at the start: after an execute that returned the      *)
(* status of the device is its status before.  When format.destroy()       *)
(* raises, execute raises and device.teardown() is not called.             *)
(***************************************************************************)
C29_DestroyFormatExecute ==
    /\ [](Executed(ACTION_TYPE_DESTROY, ACTION_OBJECT_FORMAT) =>
            LET b == last.backend IN
            /\ last.calls = SubSeq(DestroyFormatSteps, 1, Len(last.calls))
            /\ last.ok <=> (b.setupOk /\ b.ok /\ (b.status \/ b.teardownOk))
            /\ (b.setupOk /\ b.ok) =>
                   /\ Len(last.calls) >= 4
                   /\ Count(last.calls, "device.teardown") =
                          (IF b.status THEN 0 ELSE 1)
            /\ last.ok => last.status = b.status
            /\ (b.setupOk /\ ~b.ok) =>
                   /\ ~last.ok
                   /\ last.calls = SubSeq(DestroyFormatSteps, 1, 3))
    /\ [][(/\ last'.op = "execute"
            /\ last'.type = ACTION_TYPE_DESTROY
            /\ last'.obj = ACTION_OBJECT_FORMAT
            /\ run'.executed # run.executed)
           =>
            LET a == actions[last'.id]
                destroyed == Count(last'.calls, "format.destroy") = 1
                             /\ last'.backend.ok
            IN  /\ \A f \in DOMAIN fmt :
                       fmt'[f] = IF f = a.origFormat /\ destroyed
                                 THEN [fmt[f] EXCEPT !.exists = FALSE]
                                 ELSE fmt[f]
                /\ UNCHANGED <<format, dev>>
          ]_vars

\* execute() destroyed the saved format of a device that was not active and
\* refers to another format now, and tore the device down
C29_Witness ==
    /\ Executed(ACTION_TYPE_DESTROY, ACTION_OBJECT_FORMAT)
    /\ last.ok /\ ~last.backend.status
    /\ last.calls = DestroyFormatSteps
    /\ actions[last.id].origFormat # NoFormat
    /\ format[last.device] \notin {NoFormat, actions[last.id].origFormat}
    /\ ~fmt[actions[last.id].origFormat].exists

\* a and b create two logical volumes of one volume group with no dependsOn
\* relation between the volumes
UnrelatedVolumesOfOneGroup(a, b) ==
    /\ isCreate(a) /\ isDevice(a) /\ isCreate(b) /\ isDevice(b)
    /\ a.device # b.device
    /\ isLVMLogicalVolumeDevice(a.device) /\ isLVMLogicalVolumeDevice(b.device)
    /\ dev[a.device].vg = dev[b.device].vg
    /\ ~dependsOn(a.device, b.device) /\ ~dependsOn(b.device, a.device)

(***************************************************************************)
(* C28: of two ActionCreateDevice actions on logical volumes of one volume *)
(* group with no dependsOn relation between the volumes, when one volume   *)
(* is restricted to a single physical volume and the other is not, the     *)
(* action on the unrestricted one requires the action on the restricted    *)
(* one and not the other way round, and every schedule creates the         *)
(* restricted volume first; when the flags are equal neither action        *)
(* requires the other.                                                     *)
(***************************************************************************)
C28_SinglePVCreatedFirst ==
    /\ \A i, j \in 1..Len(actions) :
           LET a == actions[i]
               b == actions[j]
           IN  UnrelatedVolumesOfOneGroup(a, b) =>
                 IF dev[b.device].singlePV /\ ~dev[a.device].singlePV
                 THEN requires(a, b) /\ ~requires(b, a)
                 ELSE dev[a.device].singlePV = dev[b.device].singlePV
                          => ~requires(a, b) /\ ~requires(b, a)
    /\ plan.state = "ordered" =>
           \A i, j \in Ids(queue) :
               LET a == actions[i]
                   b == actions[j]
               IN  (/\ UnrelatedVolumesOfOneGroup(a, b)
                    /\ dev[b.device].singlePV /\ ~dev[a.device].singlePV)
                   => Pos(plan.seq, j) < Pos(plan.seq, i)

\* the unrestricted volume was registered first and is created second
C28_Witness ==
    /\ plan.state = "ordered"
    /\ \E i, j \in Ids(queue) :
           /\ i < j
           /\ UnrelatedVolumesOfOneGroup(actions[i], actions[j])
           /\ dev[actions[j].device].singlePV /\ ~dev[actions[i].device].singlePV
           /\ Pos(plan.seq, j) < Pos(plan.seq, i)

=============================================================================
